---- MODULE Spec2Model ----
(***************************************************************************)
(* Model of the YouTube comment tools:                                     *)
(*   - youtube_comments_crawler.py : main, get_video_info, get_comments,   *)
(*     save_comments                         (specification SpecFetch)     *)
(*   - merge_comments.py : merge_comments    (specification SpecMerge)     *)
(*   - youtube_api_script.p.py : get_youtube_data (specification SpecApi)  *)
(* The provider (the HTTP API) and the files of the input directory are    *)
(* the environment: their answers are drawn from small sets.               *)
(***************************************************************************)
EXTENDS Integers, Sequences, FiniteSets, TLC

VARIABLES
    \* ---- youtube_comments_crawler.py ----
    pc,               \* position of main / get_comments
    max_results,      \* get_comments' max_results argument
    info_outcome,     \* what the metadata request did
    video_info,       \* result of get_video_info: "absent" or "present"
    all_comments,     \* get_comments' all_comments list
    total_fetched,    \* get_comments' total_fetched counter
    next_page_token,  \* get_comments' next_page_token (NoToken = None / "")
    requests,         \* page requests issued so far: [maxResults, pageToken]
    responses,        \* what the provider answered to each request
    files,            \* fetch output files written by save_comments
    \* ---- merge_comments.py ----
    mpc,              \* position of merge_comments
    comment_files,    \* sorted(glob): contents of the files, in sorted order
    file_idx,         \* number of files the for loop has handled
    merged_data,      \* the merged_data accumulator
    skipped,          \* indices of the files whose processing raised
    merged_output,    \* the document written to output_file, once written
    \* ---- youtube_api_script.p.py ----
    apc,              \* position of get_youtube_data
    total_comments_limit,
    api_meta,         \* what the videos().list request did
    video_data,       \* "empty" ({}) or "filled"
    api_comments,     \* get_youtube_data's all_comments list
    comments_fetched, \* get_youtube_data's comments_fetched counter
    api_token,        \* get_youtube_data's next_page_token
    api_requests,     \* commentThreads().list requests issued: [pageToken]
    api_result,       \* "pending", "none" (return None) or "full_data"
    \* ---- extract_video_id (youtube_comments_crawler.py) ----
    upc,              \* position of extract_video_id: "call" or "done"
    url,              \* the url argument, a sequence of characters
    url_shape,        \* how the URL was built (not visible to the code)
    url_id,           \* the id the URL was built around (not visible either)
    extracted         \* what extract_video_id did: an id, None, or a raise

fetchVars == <<pc, max_results, info_outcome, video_info, all_comments,
               total_fetched, next_page_token, requests, responses, files>>
mergeVars == <<mpc, comment_files, file_idx, merged_data, skipped, merged_output>>
apiVars == <<apc, total_comments_limit, api_meta, video_data, api_comments,
             comments_fetched, api_token, api_requests, api_result>>
urlVars == <<upc, url, url_shape, url_id, extracted>>
vars == <<fetchVars, mergeVars, apiVars, urlVars>>

----------------------------------------------------------------------------
\* Bounds of the model
MaxPages == 3     \* page requests one get_comments call may issue in the model
MaxItems == 2     \* largest "small" page a provider answers with
MaxSmall == 3     \* largest "small" max_results tried

\* Program constant: the per-request page cap of get_comments
PageCap == 100

NoToken == 0              \* data.get("nextPageToken") is None or ""
Tokens == {1, 2}          \* opaque continuation tokens

Min(a, b) == IF a <= b THEN a ELSE b
CeilDiv(a, b) == (a + b - 1) \div b

\* The records of page p when it carries n items, in item order
Page(p, n) == [i \in 1..n |-> [page |-> p, idx |-> i]]

RECURSIVE PagesUpTo(_, _)
\* Concatenation of the first k pages, sizes[i] items of page i
PagesUpTo(sizes, k) ==
    IF k = 0 THEN <<>> ELSE PagesUpTo(sizes, k - 1) \o Page(k, sizes[k])

----------------------------------------------------------------------------
\* youtube_comments_crawler.py

MaxResultsSet == (0..MaxSmall) \cup {PageCap, PageCap + 1, 2 * PageCap}

\* What the metadata request can do
\* (a well-formed first item, an empty items list, or an exception: transport
\* failure, error status, or a first item lacking a field)
InfoOutcomes == {"item", "zero_items", "exception"}

\* get_video_info: a dict only when the request succeeds with a well-formed
\* first item; None when items is empty (implicit return) or on any exception
VideoInfoOf(outcome) == IF outcome = "item" THEN "present" ELSE "absent"

\* main: video_info = await crawler.get_video_info(video_id)
GetVideoInfo ==
    /\ pc = "get_video_info"
    /\ \E o \in InfoOutcomes :
          /\ info_outcome' = o
          /\ video_info' = VideoInfoOf(o)
    /\ pc' = "call_get_comments"
    /\ UNCHANGED <<max_results, all_comments, total_fetched, next_page_token,
                   requests, responses, files>>
    /\ UNCHANGED <<mergeVars, apiVars, urlVars>>

\* while total_fetched < max_results
LoopTest(total, max) == total < max

\* main: comments = await crawler.get_comments(...), up to the first loop test
EnterGetComments ==
    /\ pc = "call_get_comments"
    /\ all_comments' = <<>>
    /\ next_page_token' = NoToken
    /\ total_fetched' = 0
    /\ pc' = IF LoopTest(0, max_results) THEN "loop" ELSE "returned"
    /\ UNCHANGED <<max_results, info_outcome, video_info, requests, responses, files>>
    /\ UNCHANGED <<mergeVars, apiVars, urlVars>>

\* current_max = min(100, max_results - total_fetched)
CurrentMaxAlwaysCap(max, total) == PageCap
CurrentMax(max, total) == Min(PageCap, max - total)

\* params of the request: pageToken only when next_page_token is truthy
RequestParams(max, total, tok) ==
    [maxResults |-> CurrentMax(max, total), pageToken |-> tok]

\* Page sizes a provider may answer with: small pages, exactly the requested
\* size, or a full page whatever was requested
PageSizes(cur) == (0..MaxItems) \cup {cur, PageCap}

\* next_page_token = data.get("nextPageToken"); if not next_page_token: break;
\* otherwise back to the loop test
AfterPageNoBreakOnMissingToken(tok, total, max) ==
    IF LoopTest(total, max) THEN "loop" ELSE "returned"
AfterPage(tok, total, max) ==
    IF tok = NoToken THEN "returned"
    ELSE IF LoopTest(total, max) THEN "loop" ELSE "returned"

\* One iteration whose response is processed to the end: n items, token tok
PageOk ==
    /\ pc = "loop"
    /\ Len(requests) < MaxPages
    /\ \E n \in PageSizes(CurrentMax(max_results, total_fetched)),
          tok \in Tokens \cup {NoToken} :
          /\ requests' = Append(requests,
                 RequestParams(max_results, total_fetched, next_page_token))
          /\ responses' = Append(responses,
                 [kind |-> "ok", n |-> n, bad |-> 0, token |-> tok])
          /\ all_comments' = all_comments \o Page(Len(requests) + 1, n)
          /\ total_fetched' = total_fetched + n
          /\ next_page_token' = tok
          /\ pc' = AfterPage(tok, total_fetched + n, max_results)
    /\ UNCHANGED <<max_results, info_outcome, video_info, files>>
    /\ UNCHANGED <<mergeVars, apiVars, urlVars>>

\* Items of page p appended before item j raised while being mapped
\* (comment_data is appended only after its replies were mapped)
ItemsBeforeFailureInclusive(p, j) == Page(p, j)
ItemsBeforeFailure(p, j) == Page(p, j - 1)

\* One iteration where mapping item j of the response raises (a missing key
\* in the item or in one of its replies): except Exception -> break. The
\* response's nextPageToken is never read
PageItemError ==
    /\ pc = "loop"
    /\ Len(requests) < MaxPages
    /\ \E n \in 1..MaxItems :
        \E j \in 1..n :
          /\ requests' = Append(requests,
                 RequestParams(max_results, total_fetched, next_page_token))
          /\ responses' = Append(responses,
                 [kind |-> "item_error", n |-> n, bad |-> j, token |-> NoToken])
          /\ all_comments' = all_comments \o ItemsBeforeFailure(Len(requests) + 1, j)
          /\ total_fetched' = total_fetched + (j - 1)
    /\ pc' = "returned"
    /\ UNCHANGED <<max_results, info_outcome, video_info, next_page_token, files>>
    /\ UNCHANGED <<mergeVars, apiVars, urlVars>>

\* Failures of the request itself
\*   transport : client.get raises, or response.json() raises, or data is no dict
\*   http_other: raise_for_status raises with a status other than 403
\*   http403_*  : raise_for_status raises with 403; the body is a JSON object
\*                (its "error" member, if any, an object), JSON of another
\*                shape, or not JSON at all
RequestFailures ==
    {"transport", "http_other", "http403_json_object", "http403_json_other",
     "http403_not_json"}

\* The except clauses: every handler ends in break, but the 403 handler first
\* calls e.response.json() and error_data.get("error", {}).get(...), which
\* raise inside the handler for a body that is not a JSON object
HandlerOutcome(kind) ==
    IF kind \in {"http403_json_other", "http403_not_json"}
    THEN "raised" ELSE "returned"

PageRequestError ==
    /\ pc = "loop"
    /\ Len(requests) < MaxPages
    /\ \E kind \in RequestFailures :
          /\ requests' = Append(requests,
                 RequestParams(max_results, total_fetched, next_page_token))
          /\ responses' = Append(responses,
                 [kind |-> kind, n |-> 0, bad |-> 0, token |-> NoToken])
          /\ pc' = HandlerOutcome(kind)
    /\ UNCHANGED <<max_results, info_outcome, video_info, all_comments,
                   total_fetched, next_page_token, files>>
    /\ UNCHANGED <<mergeVars, apiVars, urlVars>>

\* The loop of get_comments without the record of past exchanges: requests
\* and responses hold the latest exchange only, and a record is named after
\* the page token its request carried, so that a run may go on for any number
\* of pages
LatestPageOk ==
    /\ pc = "loop"
    /\ \E n \in PageSizes(CurrentMax(max_results, total_fetched)),
          tok \in Tokens \cup {NoToken} :
          /\ requests' = <<RequestParams(max_results, total_fetched, next_page_token)>>
          /\ responses' = <<[kind |-> "ok", n |-> n, bad |-> 0, token |-> tok]>>
          /\ all_comments' = all_comments \o Page(next_page_token, n)
          /\ total_fetched' = total_fetched + n
          /\ next_page_token' = tok
          /\ pc' = AfterPage(tok, total_fetched + n, max_results)
    /\ UNCHANGED <<max_results, info_outcome, video_info, files>>
    /\ UNCHANGED <<mergeVars, apiVars, urlVars>>

LatestPageItemError ==
    /\ pc = "loop"
    /\ \E n \in 1..MaxItems :
        \E j \in 1..n :
          /\ requests' = <<RequestParams(max_results, total_fetched, next_page_token)>>
          /\ responses' = <<[kind |-> "item_error", n |-> n, bad |-> j,
                             token |-> NoToken]>>
          /\ all_comments' = all_comments \o ItemsBeforeFailure(next_page_token, j)
          /\ total_fetched' = total_fetched + (j - 1)
    /\ pc' = "returned"
    /\ UNCHANGED <<max_results, info_outcome, video_info, next_page_token, files>>
    /\ UNCHANGED <<mergeVars, apiVars, urlVars>>

LatestPageRequestError ==
    /\ pc = "loop"
    /\ \E kind \in RequestFailures :
          /\ requests' = <<RequestParams(max_results, total_fetched, next_page_token)>>
          /\ responses' = <<[kind |-> kind, n |-> 0, bad |-> 0, token |-> NoToken]>>
          /\ pc' = HandlerOutcome(kind)
    /\ UNCHANGED <<max_results, info_outcome, video_info, all_comments,
                   total_fetched, next_page_token, files>>
    /\ UNCHANGED <<mergeVars, apiVars, urlVars>>

\* save_comments: output_data written to the timestamped file
OutputData(info, comments) ==
    [video_info |-> info, comments_count |-> Len(comments), comments |-> comments]

\* main: if comments: save_comments(video_info or {"video_id": video_id}, comments)
SaveComments ==
    /\ pc = "returned"
    /\ all_comments # <<>>
    /\ files' = Append(files,
          OutputData(IF video_info = "present" THEN "present" ELSE "bare_id",
                     all_comments))
    /\ pc' = "saved"
    /\ UNCHANGED <<max_results, info_outcome, video_info, all_comments,
                   total_fetched, next_page_token, requests, responses>>
    /\ UNCHANGED <<mergeVars, apiVars, urlVars>>

\* main: else: print("未获取到任何评论")
NoComments ==
    /\ pc = "returned"
    /\ all_comments = <<>>
    /\ pc' = "nothing_saved"
    /\ UNCHANGED <<max_results, info_outcome, video_info, all_comments,
                   total_fetched, next_page_token, requests, responses, files>>
    /\ UNCHANGED <<mergeVars, apiVars, urlVars>>

\* main: an exception leaving get_comments passes the try/finally (close only)
MainPropagates ==
    /\ pc = "raised"
    /\ pc' = "crashed"
    /\ UNCHANGED <<max_results, info_outcome, video_info, all_comments,
                   total_fetched, next_page_token, requests, responses, files>>
    /\ UNCHANGED <<mergeVars, apiVars, urlVars>>

----------------------------------------------------------------------------
\* merge_comments.py

\* Bounds of the input directory
MaxFiles == 2      \* files matching youtube_comments_*.json
MaxComments == 2   \* top-level comments of one file
MaxReplies == 1    \* replies of one comment

Null == <<"null">>            \* JSON null / Python None
EmptyString == <<"">>         \* the "" default of dict.get
CommentId(c) == <<"c", c>>    \* comment_id of the c-th comment of a file
ReplyId(c, r) == <<"r", c, r>>
VideoIds == {<<"v", 1>>, <<"v", 2>>}

SeqsUpTo(S, n) == UNION {[1..k -> S] : k \in 0..n}

\* A reply as stored in a file: not a JSON object at all, or an object whose
\* parent_id is the enclosing comment's id, absent (or ""), or null
ReplyShapes ==
    [kind : {"not_object"}, parent : {"absent"}]
        \cup [kind : {"object"}, parent : {"parent", "absent", "null"}]

\* The replies value of a comment: a list, or a value that cannot be iterated
RepliesShapes ==
    [kind : {"not_iterable"}, items : {<<>>}]
        \cup [kind : {"list"}, items : SeqsUpTo(ReplyShapes, MaxReplies)]

CommentShapes ==
    [kind : {"not_object"}, replies : {[kind |-> "list", items |-> <<>>]}]
        \cup [kind : {"object"}, replies : RepliesShapes]

\* The comments value of a file: a list, or a value len() rejects
CommentsShapes ==
    [kind : {"no_len"}, items : {<<>>}]
        \cup [kind : {"list"}, items : SeqsUpTo(CommentShapes, MaxComments)]

\* The content of one file: text that is not JSON, JSON that is no object, an
\* object whose video_info is no object, or an object whose video_info is an
\* object (possibly missing, then {}) with or without a video_id
FileShapes ==
    [kind : {"bad_json", "not_object", "video_info_not_object"},
     video_id : {EmptyString}, comments : {[kind |-> "list", items |-> <<>>]}]
        \cup [kind : {"object"}, video_id : VideoIds \cup {EmptyString},
              comments : CommentsShapes]

\* if not comment_files: return    (nothing is written)
ScanFiles ==
    /\ mpc = "scan"
    /\ mpc' = IF comment_files = <<>> THEN "returned_no_files" ELSE "loop"
    /\ UNCHANGED <<comment_files, file_idx, merged_data, skipped, merged_output>>
    /\ UNCHANGED <<fetchVars, apiVars, urlVars>>

\* parent_id = reply.get("parent_id", "")
ParentIdOf(reply, c) ==
    CASE reply.parent = "parent" -> CommentId(c)
      [] reply.parent = "absent" -> EmptyString
      [] reply.parent = "null" -> Null

\* main_comment; src is the index of the file it was read from (provenance,
\* not a field of the written record)
MainComment(c, vid, src) ==
    [comment_id |-> CommentId(c), video_id |-> vid, is_reply |-> FALSE,
     parent_id |-> Null, src |-> src]

\* reply_comment
ReplyComment(reply, c, r, vid, src) ==
    [comment_id |-> ReplyId(c, r), video_id |-> vid, is_reply |-> TRUE,
     parent_id |-> ParentIdOf(reply, c), src |-> src]

RECURSIVE RepliesOutcome(_, _, _, _, _)
\* for reply in replies: the records appended from reply r on, and whether the
\* loop ran to its end
RepliesOutcome(replies, r, c, vid, src) ==
    IF r > Len(replies) THEN [recs |-> <<>>, ok |-> TRUE]
    ELSE IF replies[r].kind = "not_object" THEN [recs |-> <<>>, ok |-> FALSE]
    ELSE LET rest == RepliesOutcome(replies, r + 1, c, vid, src)
         IN  [recs |-> <<ReplyComment(replies[r], c, r, vid, src)>> \o rest.recs,
              ok |-> rest.ok]

\* The body of "for comment in comments" for the c-th comment
CommentOutcome(comment, c, vid, src) ==
    IF comment.kind = "not_object" THEN [recs |-> <<>>, ok |-> FALSE]
    ELSE IF comment.replies.kind = "not_iterable"
    THEN [recs |-> <<MainComment(c, vid, src)>>, ok |-> FALSE]
    ELSE LET rs == RepliesOutcome(comment.replies.items, 1, c, vid, src)
         IN  [recs |-> <<MainComment(c, vid, src)>> \o rs.recs, ok |-> rs.ok]

RECURSIVE CommentsOutcome(_, _, _, _)
\* for comment in comments, from comment c on
CommentsOutcome(comments, c, vid, src) ==
    IF c > Len(comments) THEN [recs |-> <<>>, ok |-> TRUE]
    ELSE LET one == CommentOutcome(comments[c], c, vid, src)
         IN  IF ~one.ok THEN one
             ELSE LET rest == CommentsOutcome(comments, c + 1, vid, src)
                  IN  [recs |-> one.recs \o rest.recs, ok |-> rest.ok]

\* video_entry (src: provenance, as for the records); comments_count is
\* taken as the file's own count, len(comments)
VideoEntry(file, src) ==
    [video_id |-> file.video_id,
     crawled_comments_count |-> Len(file.comments.items), src |-> src]

\* merged_data["total_comments"] += len(comments)
TotalCommentsStep(file, recs) == Len(file.comments.items)

\* The try block for one file: merged_data afterwards and whether it raised.
\* json.load, data.get, video_info.get and len(comments) raise before anything
\* is appended; the comment loop raises after videos.append
FileOutcome(md, file, src) ==
    IF file.kind # "object" \/ file.comments.kind = "no_len"
    THEN [md |-> md, raised |-> TRUE]
    ELSE LET out == CommentsOutcome(file.comments.items, 1, file.video_id, src)
             appended == [md EXCEPT
                 !.videos = Append(@, VideoEntry(file, src)),
                 !.all_comments = @ \o out.recs]
         IN  IF out.ok
             THEN [md |-> [appended EXCEPT
                       !.total_videos = @ + 1,
                       !.total_comments = @ + TotalCommentsStep(file, out.recs)],
                   raised |-> FALSE]
             ELSE [md |-> appended, raised |-> TRUE]

\* One iteration of "for idx, file_path in enumerate(comment_files, 1)"
ProcessFile ==
    /\ mpc = "loop"
    /\ file_idx < Len(comment_files)
    /\ LET out == FileOutcome(merged_data, comment_files[file_idx + 1], file_idx + 1)
       IN  /\ merged_data' = out.md
           /\ skipped' = IF out.raised THEN skipped \cup {file_idx + 1} ELSE skipped
    /\ file_idx' = file_idx + 1
    /\ UNCHANGED <<mpc, comment_files, merged_output>>
    /\ UNCHANGED <<fetchVars, apiVars, urlVars>>

\* json.dump(merged_data, f, ...) after the loop
WriteMerged ==
    /\ mpc = "loop"
    /\ file_idx = Len(comment_files)
    /\ merged_output' = [written |-> TRUE, data |-> merged_data]
    /\ mpc' = "done"
    /\ UNCHANGED <<comment_files, file_idx, merged_data, skipped>>
    /\ UNCHANGED <<fetchVars, apiVars, urlVars>>

----------------------------------------------------------------------------
\* youtube_api_script.p.py

LimitSet == 0..MaxSmall

\* What videos().list(...).execute() can do: a well-formed first item, an
\* empty items list, or an exception (transport, missing key)
ApiMetaOutcomes == {"item", "zero_items", "exception"}

\* Where get_youtube_data goes after the metadata step:
\* "if not video_response['items']: ... return None"; an exception is
\* printed and the function goes on to the comments
AfterMeta(outcome) == IF outcome = "zero_items" THEN "returned" ELSE "comments"

\* Step 1 of get_youtube_data, up to the first test of the while loop
ApiVideoInfo ==
    /\ apc = "videos_list"
    /\ \E o \in ApiMetaOutcomes :
          /\ api_meta' = o
          /\ video_data' = IF o = "item" THEN "filled" ELSE "empty"
          /\ apc' = IF AfterMeta(o) = "returned" THEN "returned"
                    ELSE IF 0 < total_comments_limit THEN "loop" ELSE "returned"
          /\ api_result' = IF AfterMeta(o) = "returned" THEN "none"
                           ELSE IF 0 < total_comments_limit THEN "pending"
                           ELSE "full_data"
    /\ UNCHANGED <<total_comments_limit, api_comments, comments_fetched,
                   api_token, api_requests>>
    /\ UNCHANGED <<fetchVars, mergeVars, urlVars>>

\* The for loop over a page of n items stops at the limit:
\* "if comments_fetched >= total_comments_limit: break"
TakenFrom(n, fetched, limit) == Min(n, limit - fetched)

\* One iteration of the while loop whose page is processed to the end
ApiPageOk ==
    /\ apc = "loop"
    /\ Len(api_requests) < MaxPages
    /\ \E n \in 0..MaxItems, tok \in Tokens \cup {NoToken} :
        LET take == TakenFrom(n, comments_fetched, total_comments_limit)
            goes_on == tok # NoToken /\ comments_fetched + take < total_comments_limit
        IN  /\ api_requests' = Append(api_requests, [pageToken |-> api_token])
            /\ api_comments' = api_comments \o Page(Len(api_requests) + 1, take)
            /\ comments_fetched' = comments_fetched + take
            /\ api_token' = tok
            /\ apc' = IF goes_on THEN "loop" ELSE "returned"
            /\ api_result' = IF goes_on THEN "pending" ELSE "full_data"
    /\ UNCHANGED <<total_comments_limit, api_meta, video_data>>
    /\ UNCHANGED <<fetchVars, mergeVars, urlVars>>

\* One iteration that raises: the request itself (j = 0) or the mapping of
\* item j, reached only if the limit was not hit before it; the except around
\* the whole loop prints and the function returns full_data
ApiPageError ==
    /\ apc = "loop"
    /\ Len(api_requests) < MaxPages
    /\ \E j \in 0..MaxItems :
          /\ j - 1 < total_comments_limit - comments_fetched
          /\ api_requests' = Append(api_requests, [pageToken |-> api_token])
          /\ api_comments' = api_comments \o
                 Page(Len(api_requests) + 1, IF j = 0 THEN 0 ELSE j - 1)
          /\ comments_fetched' = comments_fetched + (IF j = 0 THEN 0 ELSE j - 1)
    /\ apc' = "returned"
    /\ api_result' = "full_data"
    /\ UNCHANGED <<total_comments_limit, api_meta, video_data, api_token>>
    /\ UNCHANGED <<fetchVars, mergeVars, urlVars>>

----------------------------------------------------------------------------
\* extract_video_id (youtube_comments_crawler.py). A URL is a sequence of
\* one-character strings.

MaxIdLen == 2      \* longest video id embedded in a generated URL

Lower == {"a", "b", "c", "d", "e", "f", "g", "h", "i", "j", "k", "l", "m",
          "n", "o", "p", "q", "r", "s", "t", "u", "v", "w", "x", "y", "z"}
Upper == {"A", "B", "C", "D", "E", "F", "G", "H", "I", "J", "K", "L", "M",
          "N", "O", "P", "Q", "R", "S", "T", "U", "V", "W", "X", "Y", "Z"}
Digits == {"0", "1", "2", "3", "4", "5", "6", "7", "8", "9"}

\* The character class [a-zA-Z0-9_-] of both patterns
IdChars == Lower \cup Upper \cup Digits \cup {"_", "-"}

\* The literal parts of the patterns and of the netloc tests
YoutuBe == <<"y", "o", "u", "t", "u", ".", "b", "e">>
YoutubeCom == <<"y", "o", "u", "t", "u", "b", "e", ".", "c", "o", "m">>
YoutuBeSlash == YoutuBe \o <<"/">>
WatchV == YoutubeCom \o <<"/", "w", "a", "t", "c", "h", "?", "v", "=">>
Embed == YoutubeCom \o <<"/", "e", "m", "b", "e", "d", "/">>

\* lit occurs in s at position i
StartsAt(s, i, lit) ==
    /\ i >= 1
    /\ i + Len(lit) - 1 <= Len(s)
    /\ \A k \in 1..Len(lit) : s[i + k - 1] = lit[k]

\* lit in s
Contains(s, lit) == \E i \in 1..(Len(s) + 1) : StartsAt(s, i, lit)

Lowest(S) == CHOOSE x \in S : \A y \in S : x <= y

RECURSIVE RunEnd(_, _)
\* Last position of the run of id characters that starts at position i
RunEnd(s, i) ==
    IF i < Len(s) /\ s[i + 1] \in IdChars THEN RunEnd(s, i + 1) ELSE i

\* re.search(r'(?:lit1|lit2|...)([a-zA-Z0-9_-]+)', s): the leftmost position
\* where one of the literals is followed by an id character; group(1) is the
\* longest run of id characters from there. no_match stands for None
ReSearch(s, lits) ==
    LET hits == {i \in 1..Len(s) :
                    \E lit \in lits :
                        /\ StartsAt(s, i, lit)
                        /\ i + Len(lit) <= Len(s)
                        /\ s[i + Len(lit)] \in IdChars}
    IN  IF hits = {} THEN [match |-> FALSE, group1 |-> <<>>]
        ELSE LET i == Lowest(hits)
                 lit == CHOOSE l \in lits : StartsAt(s, i, l)
                 from == i + Len(lit)
             IN  [match |-> TRUE, group1 |-> SubSeq(s, from, RunEnd(s, from))]

\* Position of the first character of s at or after position i that is in
\* chars, Len(s) + 1 when there is none
FindFrom(s, i, chars) ==
    LET at == {k \in i..Len(s) : s[k] \in chars}
    IN  IF at = {} THEN Len(s) + 1 ELSE Lowest(at)

SchemeChars == Lower \cup Upper \cup Digits \cup {"+", "-", "."}

\* urlparse(url): the scheme is cut off when a ":" follows a letter and
\* scheme characters only; a netloc is read after "//" up to the first of
\* "/", "?", "#"; an unbalanced bracket in it raises ValueError; the fragment
\* is cut at the first "#", the query at the first "?"
UrlParse(u) ==
    LET colon == FindFrom(u, 1, {":"})
        has_scheme == /\ colon > 1 /\ colon <= Len(u)
                      /\ u[1] \in Lower \cup Upper
                      /\ \A k \in 1..(colon - 1) : u[k] \in SchemeChars
        rest == IF has_scheme THEN SubSeq(u, colon + 1, Len(u)) ELSE u
        has_netloc == StartsAt(rest, 1, <<"/", "/">>)
        delim == FindFrom(rest, 3, {"/", "?", "#"})
        netloc == IF has_netloc THEN SubSeq(rest, 3, delim - 1) ELSE <<>>
        after == IF has_netloc THEN SubSeq(rest, delim, Len(rest)) ELSE rest
        hash == FindFrom(after, 1, {"#"})
        nofrag == SubSeq(after, 1, hash - 1)
        qmark == FindFrom(nofrag, 1, {"?"})
    IN  [raised |-> Contains(netloc, <<"[">>) # Contains(netloc, <<"]">>),
         netloc |-> netloc,
         path |-> SubSeq(nofrag, 1, qmark - 1),
         query |-> SubSeq(nofrag, qmark + 1, Len(nofrag))]

RECURSIVE LStrip(_, _)
\* s.lstrip(ch)
LStrip(s, ch) ==
    IF s # <<>> /\ s[1] = ch THEN LStrip(Tail(s), ch) ELSE s

RECURSIVE Split(_, _)
\* s.split(ch)
Split(s, ch) ==
    LET at == FindFrom(s, 1, {ch})
    IN  IF at > Len(s) THEN <<s>>
        ELSE <<SubSeq(s, 1, at - 1)>> \o Split(SubSeq(s, at + 1, Len(s)), ch)

\* unquote(s.replace('+', ' ')); the generated URLs hold no %-escape
Unquote(s) == [k \in 1..Len(s) |-> IF s[k] = "+" THEN " " ELSE s[k]]

\* parse_qs(query)[name], [] standing for a missing key: the values of the
\* name=value pairs between "&", pairs without "=" or with an empty value
\* left out
ParseQs(query, name) ==
    LET pairs == Split(query, "&")
        eq(i) == FindFrom(pairs[i], 1, {"="})
        kept == {i \in 1..Len(pairs) :
                    /\ eq(i) <= Len(pairs[i])
                    /\ eq(i) < Len(pairs[i])
                    /\ Unquote(SubSeq(pairs[i], 1, eq(i) - 1)) = name}
        value(i) == Unquote(SubSeq(pairs[i], eq(i) + 1, Len(pairs[i])))
    IN  IF kept = {} THEN <<>> ELSE <<value(Lowest(kept))>>

\* extract_video_id(url)
ExtractVideoId(u) ==
    LET m1 == ReSearch(u, {YoutuBeSlash})
        m2 == ReSearch(u, {WatchV, Embed})
        parsed == UrlParse(u)
        v == ParseQs(parsed.query, <<"v">>)
    IN  IF m1.match THEN [kind |-> "id", value |-> m1.group1]
        ELSE IF m2.match THEN [kind |-> "id", value |-> m2.group1]
        ELSE IF parsed.raised THEN [kind |-> "raised", value |-> <<>>]
        ELSE IF Contains(parsed.netloc, YoutuBe)
        THEN [kind |-> "id", value |-> LStrip(parsed.path, "/")]
        ELSE IF Contains(parsed.netloc, YoutubeCom) /\ v # <<>>
        THEN [kind |-> "id", value |-> v[1]]
        ELSE [kind |-> "none", value |-> <<>>]

\* The URLs tried
Https == <<"h", "t", "t", "p", "s", ":", "/", "/">>
Www == <<"w", "w", "w", ".">>
ExampleCom == <<"e", "x", "a", "m", "p", "l", "e", ".", "c", "o", "m">>
Watch == <<"/", "w", "a", "t", "c", "h">>
Shorts == <<"/", "s", "h", "o", "r", "t", "s", "/">>
SiParam == <<"s", "i", "=", "x">>
IdAlphabet == {"a", "Z", "7", "_", "-"}
Ids == UNION {[1..k -> IdAlphabet] : k \in 1..MaxIdLen}
YoutubeHosts == {Https \o YoutubeCom, Https \o Www \o YoutubeCom}

\* The shapes extract_video_id documents or handles
SupportedShapes ==
    {"short", "short_more", "watch", "watch_more", "embed", "v_not_first"}

\* The URLs of a supported shape around id
UrlsOfShape(shape, id) ==
    CASE shape = "short" -> {Https \o YoutuBeSlash \o id}
      [] shape = "short_more" -> {Https \o YoutuBeSlash \o id \o <<"?">> \o SiParam}
      [] shape = "watch" -> {h \o Watch \o <<"?", "v", "=">> \o id : h \in YoutubeHosts}
      [] shape = "watch_more" ->
             {h \o Watch \o <<"?", "v", "=">> \o id \o <<"&">> \o SiParam :
                 h \in YoutubeHosts}
      [] shape = "embed" -> {h \o <<"/", "e", "m", "b", "e", "d", "/">> \o id :
                                h \in YoutubeHosts}
      [] shape = "v_not_first" ->
             {h \o Watch \o <<"?">> \o SiParam \o <<"&", "v", "=">> \o id :
                 h \in YoutubeHosts}

\* URLs of no recognized shape: no id where one belongs, another site,
\* another path, no URL at all, a malformed host
UnrecognizedUrls ==
    {<<>>, Https \o YoutuBe, Https \o YoutuBeSlash, YoutuBeSlash,
     Https \o ExampleCom, Https \o <<"[">> \o YoutubeCom}
        \cup {h \o x : h \in YoutubeHosts,
                       x \in {<<>>, <<"/">>, Watch, Watch \o <<"?", "v", "=">>,
                              Watch \o <<"?">> \o SiParam}}
        \cup {h \o Shorts \o id : h \in YoutubeHosts, id \in Ids}
        \cup {Https \o ExampleCom \o Watch \o <<"?", "v", "=">> \o id : id \in Ids}

\* main: video_id = extract_video_id(VIDEO_URL)
CallExtractVideoId ==
    /\ upc = "call"
    /\ extracted' = ExtractVideoId(url)
    /\ upc' = "done"
    /\ UNCHANGED <<url, url_shape, url_id>>
    /\ UNCHANGED <<fetchVars, mergeVars, apiVars>>

----------------------------------------------------------------------------
\* Specifications

FetchNext ==
    \/ GetVideoInfo
    \/ EnterGetComments
    \/ PageOk
    \/ PageItemError
    \/ PageRequestError
    \/ SaveComments
    \/ NoComments
    \/ MainPropagates

MergeNext ==
    \/ ScanFiles
    \/ ProcessFile
    \/ WriteMerged

ApiNext ==
    \/ ApiVideoInfo
    \/ ApiPageOk
    \/ ApiPageError

\* main after the video id was extracted and the crawler constructed;
\* max_results stands for the configured MAX_COMMENTS
FetchInit ==
    /\ pc = "get_video_info" /\ max_results \in MaxResultsSet
    /\ info_outcome = "none" /\ video_info = "absent"
    /\ all_comments = <<>> /\ total_fetched = 0 /\ next_page_token = NoToken
    /\ requests = <<>> /\ responses = <<>> /\ files = <<>>
    /\ mpc = "idle" /\ comment_files = <<>> /\ file_idx = 0
    /\ merged_data = [total_videos |-> 0, total_comments |-> 0,
                      videos |-> <<>>, all_comments |-> <<>>]
    /\ skipped = {} /\ merged_output = [written |-> FALSE]
    /\ apc = "idle" /\ total_comments_limit = 0 /\ api_meta = "none"
    /\ video_data = "empty" /\ api_comments = <<>> /\ comments_fetched = 0
    /\ api_token = NoToken /\ api_requests = <<>> /\ api_result = "pending"
    /\ upc = "idle" /\ url = <<>> /\ url_shape = "none" /\ url_id = <<>>
    /\ extracted = [kind |-> "pending"]

\* merge_comments after comment_files = sorted(glob(...)) and the creation of
\* merged_data; comment_files[i] is the content of the i-th file in sorted order
MergeInit ==
    /\ mpc = "scan" /\ comment_files \in SeqsUpTo(FileShapes, MaxFiles)
    /\ file_idx = 0
    /\ merged_data = [total_videos |-> 0, total_comments |-> 0,
                      videos |-> <<>>, all_comments |-> <<>>]
    /\ skipped = {} /\ merged_output = [written |-> FALSE]
    /\ pc = "idle" /\ max_results = 0 /\ info_outcome = "none"
    /\ video_info = "absent" /\ all_comments = <<>> /\ total_fetched = 0
    /\ next_page_token = NoToken /\ requests = <<>> /\ responses = <<>>
    /\ files = <<>>
    /\ apc = "idle" /\ total_comments_limit = 0 /\ api_meta = "none"
    /\ video_data = "empty" /\ api_comments = <<>> /\ comments_fetched = 0
    /\ api_token = NoToken /\ api_requests = <<>> /\ api_result = "pending"
    /\ upc = "idle" /\ url = <<>> /\ url_shape = "none" /\ url_id = <<>>
    /\ extracted = [kind |-> "pending"]

\* get_youtube_data after video_data = {} and all_comments = []
ApiInit ==
    /\ apc = "videos_list" /\ total_comments_limit \in LimitSet
    /\ api_meta = "none" /\ video_data = "empty" /\ api_comments = <<>>
    /\ comments_fetched = 0 /\ api_token = NoToken /\ api_requests = <<>>
    /\ api_result = "pending"
    /\ pc = "idle" /\ max_results = 0 /\ info_outcome = "none"
    /\ video_info = "absent" /\ all_comments = <<>> /\ total_fetched = 0
    /\ next_page_token = NoToken /\ requests = <<>> /\ responses = <<>>
    /\ files = <<>>
    /\ mpc = "idle" /\ comment_files = <<>> /\ file_idx = 0
    /\ merged_data = [total_videos |-> 0, total_comments |-> 0,
                      videos |-> <<>>, all_comments |-> <<>>]
    /\ skipped = {} /\ merged_output = [written |-> FALSE]
    /\ upc = "idle" /\ url = <<>> /\ url_shape = "none" /\ url_id = <<>>
    /\ extracted = [kind |-> "pending"]

LoopNext ==
    \/ EnterGetComments
    \/ LatestPageOk
    \/ LatestPageItemError
    \/ LatestPageRequestError

\* A crawler right after construction, about to run get_comments
LoopInit ==
    /\ pc = "call_get_comments" /\ max_results \in 0..MaxSmall
    /\ info_outcome = "none" /\ video_info = "absent"
    /\ all_comments = <<>> /\ total_fetched = 0 /\ next_page_token = NoToken
    /\ requests = <<>> /\ responses = <<>> /\ files = <<>>
    /\ mpc = "idle" /\ comment_files = <<>> /\ file_idx = 0
    /\ merged_data = [total_videos |-> 0, total_comments |-> 0,
                      videos |-> <<>>, all_comments |-> <<>>]
    /\ skipped = {} /\ merged_output = [written |-> FALSE]
    /\ apc = "idle" /\ total_comments_limit = 0 /\ api_meta = "none"
    /\ video_data = "empty" /\ api_comments = <<>> /\ comments_fetched = 0
    /\ api_token = NoToken /\ api_requests = <<>> /\ api_result = "pending"
    /\ upc = "idle" /\ url = <<>> /\ url_shape = "none" /\ url_id = <<>>
    /\ extracted = [kind |-> "pending"]

UrlNext == CallExtractVideoId

\* main before video_id = extract_video_id(VIDEO_URL), for a URL of a
\* supported shape around some id or for a URL of no recognized shape
UrlInit ==
    /\ upc = "call"
    /\ \/ /\ url_shape \in SupportedShapes
          /\ url_id \in Ids
          /\ url \in UrlsOfShape(url_shape, url_id)
       \/ /\ url_shape = "unrecognized"
          /\ url_id = <<>>
          /\ url \in UnrecognizedUrls
    /\ extracted = [kind |-> "pending"]
    /\ pc = "idle" /\ max_results = 0 /\ info_outcome = "none"
    /\ video_info = "absent" /\ all_comments = <<>> /\ total_fetched = 0
    /\ next_page_token = NoToken /\ requests = <<>> /\ responses = <<>>
    /\ files = <<>>
    /\ mpc = "idle" /\ comment_files = <<>> /\ file_idx = 0
    /\ merged_data = [total_videos |-> 0, total_comments |-> 0,
                      videos |-> <<>>, all_comments |-> <<>>]
    /\ skipped = {} /\ merged_output = [written |-> FALSE]
    /\ apc = "idle" /\ total_comments_limit = 0 /\ api_meta = "none"
    /\ video_data = "empty" /\ api_comments = <<>> /\ comments_fetched = 0
    /\ api_token = NoToken /\ api_requests = <<>> /\ api_result = "pending"

\* One run of the crawler's main
SpecFetch == FetchInit /\ [][FetchNext]_vars
\* One run of merge_comments over a directory
SpecMerge == MergeInit /\ [][MergeNext]_vars
\* One call of get_youtube_data
SpecApi == ApiInit /\ [][ApiNext]_vars
\* One call of get_comments against a provider that answers every request:
\* each awaited client.get ends in a response or in an exception (the client
\* has a 30 s timeout), so an iteration that can be taken is taken
SpecLoop == LoopInit /\ [][LoopNext]_vars /\ WF_vars(LoopNext)
\* One call of extract_video_id
SpecUrl == UrlInit /\ [][UrlNext]_vars

----------------------------------------------------------------------------
\* Properties of get_comments and main (checked under SpecFetch)

\* get_comments has returned to main (main may have gone on since)
Returned == pc \in {"returned", "saved", "nothing_saved"}

\* Number of items each response carried
RespSizes == [i \in 1..Len(responses) |-> responses[i].n]

RECURSIVE Delivered(_)
\* Items carried by the first i responses
Delivered(i) == IF i = 0 THEN 0 ELSE Delivered(i - 1) + responses[i].n

\* Every request so far was answered without failure by a provider that
\* serves pages of n items cut to the requested size, and that has more to
\* serve (a token) as long as fewer than max_results items were delivered
HonouringProvider(n) ==
    \A i \in 1..Len(responses) :
        /\ responses[i].kind = "ok"
        /\ responses[i].n = Min(n, requests[i].maxResults)
        /\ Delivered(i) < max_results => responses[i].token # NoToken

\* Every request so far was answered without failure by a provider that
\* serves k pages of exactly n items each, with k * n > max_results; a page
\* never exceeds the size requested for it
UniformProvider(n) ==
    \A i \in 1..Len(responses) :
        /\ responses[i].kind = "ok"
        /\ responses[i].n = n
        /\ n <= requests[i].maxResults
        /\ i * n <= max_results => responses[i].token # NoToken

\* Each request asked for min(100, max_results - records fetched so far)
PageSizesRequested ==
    \A i \in 1..Len(requests) :
        requests[i].maxResults = Min(PageCap, max_results - Delivered(i - 1))

\* C2 as stated: against a never-failing provider of k pages of n items each,
\* k * n > max_results, get_comments returns exactly max_results records in
\* page-then-item order after exactly ceil(max_results / 100) requests, each
\* with maxResults = min(100, max_results - fetched so far)
C2_AsStated ==
    \A n \in 1..PageCap :
        (Returned /\ UniformProvider(n)) =>
            /\ Len(all_comments) = max_results
            /\ all_comments = PagesUpTo(RespSizes, Len(responses))
            /\ Len(requests) = CeilDiv(max_results, PageCap)
            /\ PageSizesRequested

\* C2 amended: against a never-failing provider that serves pages of n items
\* cut to the requested maxResults and has more than max_results items,
\* get_comments returns exactly max_results records in page-then-item order
\* after exactly ceil(max_results / min(n, 100)) requests, each with
\* maxResults = min(100, max_results - fetched so far)
C2_PagedFetch ==
    \A n \in 1..PageCap :
        (Returned /\ HonouringProvider(n)) =>
            /\ Len(all_comments) = max_results
            /\ all_comments = PagesUpTo(RespSizes, Len(responses))
            /\ Len(requests) = CeilDiv(max_results, Min(n, PageCap))
            /\ PageSizesRequested

\* A run of two requests, 100 then 1, for max_results = 101
C2_Witness ==
    /\ pc = "returned"
    /\ max_results = PageCap + 1
    /\ HonouringProvider(PageCap)
    /\ Len(requests) = 2
    /\ requests[2].maxResults = 1
    /\ Len(all_comments) = PageCap + 1

\* C3 as stated: no failure during a page fetch (403 with any body included)
\* lets an exception leave get_comments
C3_NeverPropagates == pc \notin {"raised", "crashed"}

\* The last request failed: the request itself, or the mapping of an item
LastFailed ==
    /\ responses # <<>>
    /\ responses[Len(responses)].kind # "ok"

\* C4 as stated: after a failure on page N the returned list is exactly the
\* records of pages 1..N-1, and no request follows the failed one
C4_AsStated ==
    /\ \A i \in 1..Len(responses) : responses[i].kind # "ok" => i = Len(requests)
    /\ (Returned /\ LastFailed) =>
           all_comments = PagesUpTo(RespSizes, Len(responses) - 1)

\* C4 amended: no request follows a failed one; when the request for page N
\* itself fails the returned list is exactly the records of pages 1..N-1, and
\* when mapping item j of page N raises it is those records followed by
\* items 1..j-1 of page N
C4_PartialOnFailure ==
    /\ \A i \in 1..Len(responses) : responses[i].kind # "ok" => i = Len(requests)
    /\ (Returned /\ LastFailed) =>
           LET N == Len(responses)
               before == PagesUpTo(RespSizes, N - 1)
           IN  IF responses[N].kind = "item_error"
               THEN all_comments = before \o Page(N, responses[N].bad - 1)
               ELSE all_comments = before

\* Page 2 fails at its second item after a full first page
C4_Witness ==
    /\ pc = "returned"
    /\ Len(responses) = 2
    /\ responses[1].n = 2
    /\ responses[2].kind = "item_error"
    /\ responses[2].bad = 2
    /\ Len(all_comments) = 3

\* C8: a response without continuation token is the last one requested and
\* get_comments returns with the records of all pages up to and including it,
\* whatever max_results; every later request carries the token of the
\* response just before it, the first request carries none
C8_TokenChain ==
    /\ \A i \in 1..Len(responses) :
          (responses[i].kind = "ok" /\ responses[i].token = NoToken) =>
              /\ i = Len(requests)
              /\ Returned
              /\ all_comments = PagesUpTo(RespSizes, i)
    /\ \A i \in 1..Len(requests) :
          IF i = 1 THEN requests[i].pageToken = NoToken
          ELSE /\ requests[i].pageToken # NoToken
               /\ requests[i].pageToken = responses[i - 1].token

\* The second response omits the token while fewer than max_results were read
C8_Witness ==
    /\ pc = "returned"
    /\ Len(responses) = 2
    /\ requests[2].pageToken = 2
    /\ responses[2].kind = "ok"
    /\ responses[2].token = NoToken
    /\ Len(all_comments) = 3
    /\ Len(all_comments) < max_results

\* main is over
MainOver == pc \in {"saved", "nothing_saved", "crashed"}

\* C10 as stated, for a failure that follows at least one delivered record:
\* after a transport/HTTP failure during pagination main has written one
\* fetch output file holding exactly the records accumulated before the
\* failure, with comments_count their number
C10_SavedAfterFailure ==
    (MainOver /\ responses # <<>>
       /\ responses[Len(responses)].kind \in RequestFailures
       /\ Delivered(Len(responses)) > 0) =>
        /\ Len(files) = 1
        /\ files[1].comments = PagesUpTo(RespSizes, Len(responses) - 1)
        /\ files[1].comments_count = Len(files[1].comments)

----------------------------------------------------------------------------
\* Properties of get_youtube_data (checked under SpecApi)

\* C9 as stated, for get_youtube_data: when the metadata request returns zero
\* items or fails, the function still attempts the comment-thread fetch
C9_CommentsStillFetched ==
    (apc = "returned" /\ api_meta \in {"zero_items", "exception"}
       /\ 0 < total_comments_limit) =>
        /\ api_result = "full_data"
        /\ Len(api_requests) >= 1

----------------------------------------------------------------------------
\* Properties of merge_comments (checked under SpecMerge)

\* C1 as stated, for a merge in which no file was skipped: the written
\* total_comments is the number of flat records, replies included
C1_TotalIsFlatCount ==
    (merged_output.written /\ skipped = {}) =>
        merged_output.data.total_comments = Len(merged_output.data.all_comments)

\* C5 as stated: a file whose processing failed contributes no entry to
\* videos and no record to all_comments
C5_SkippedContributesNothing ==
    \A i \in skipped :
        /\ \A j \in 1..Len(merged_data.videos) : merged_data.videos[j].src # i
        /\ \A j \in 1..Len(merged_data.all_comments) :
              merged_data.all_comments[j].src # i

RECURSIVE FlatCount(_, _)
\* Top-level comments plus replies among the first c comments of a list
FlatCount(comments, c) ==
    IF c = 0 THEN 0
    ELSE FlatCount(comments, c - 1) + 1 + Len(comments[c].replies.items)

RECURSIVE FlatCountOfFiles(_)
\* The same over the first k files, those skipped left out
FlatCountOfFiles(k) ==
    IF k = 0 THEN 0
    ELSE FlatCountOfFiles(k - 1) +
         (IF k \in skipped THEN 0
          ELSE FlatCount(comment_files[k].comments.items,
                         Len(comment_files[k].comments.items)))

\* Positions of the top-level records before position i
TopLevelBefore(ac, i) == {j \in 1..(i - 1) : ~ac[j].is_reply}
Highest(S) == CHOOSE x \in S : \A y \in S : y <= x

\* C6 as stated, for a merge in which no file was skipped: top-level records
\* have a null parent_id; every reply record has a non-null parent_id equal
\* to the comment_id of the top-level record before it; the length is the
\* number of top-level comments plus replies
C6_FlatStructure ==
    (merged_output.written /\ skipped = {}) =>
        LET ac == merged_output.data.all_comments
        IN  /\ \A i \in 1..Len(ac) :
                  IF ac[i].is_reply
                  THEN /\ TopLevelBefore(ac, i) # {}
                       /\ ac[i].parent_id # Null
                       /\ ac[i].parent_id =
                              ac[Highest(TopLevelBefore(ac, i))].comment_id
                  ELSE ac[i].parent_id = Null
            /\ Len(ac) = FlatCountOfFiles(Len(comment_files))

\* C7 as stated, for a merge in which no file was skipped: every record's
\* video_id matches exactly one entry of videos, the one of the file it was
\* read from, and total_videos counts the entries
C7_OneVideoPerRecord ==
    (merged_output.written /\ skipped = {}) =>
        LET d == merged_output.data
        IN  /\ \A i \in 1..Len(d.all_comments) :
                  LET m == {j \in 1..Len(d.videos) :
                               d.videos[j].video_id = d.all_comments[i].video_id}
                  IN  /\ Cardinality(m) = 1
                      /\ \A j \in m : d.videos[j].src = d.all_comments[i].src
            /\ d.total_videos = Len(d.videos)

----------------------------------------------------------------------------
\* Properties of extract_video_id (checked under SpecUrl)

\* C11 as stated: for every URL of a supported shape extract_video_id returns
\* the embedded id, and for every URL of no recognized shape it returns None,
\* never an empty string and never an exception
C11_ExtractsOrNone ==
    upc = "done" =>
        IF url_shape \in SupportedShapes
        THEN extracted.kind = "id" /\ extracted.value = url_id
        ELSE extracted.kind = "none"

----------------------------------------------------------------------------
\* Termination of get_comments (checked under SpecLoop)

\* One of the three stop conditions: the latest response omitted the token,
\* enough records were fetched, or the latest page fetch failed
StopCondition ==
    \/ total_fetched >= max_results
    \/ /\ responses # <<>>
       /\ \/ responses[1].kind # "ok"
          \/ responses[1].token = NoToken

\* C12 as stated, an exception leaving get_comments (C3) counted as an end:
\* whatever the provider answers, get_comments eventually ends, and when it
\* returns one of the three stop conditions holds
C12_EventuallyReturns ==
    /\ <>(pc \in {"returned", "raised"})
    /\ [](pc = "returned" => StopCondition)

====
